---- MODULE Spec2Model ----
(***************************************************************************)
(* State-machine model of the chirps HTTP backend (src/main.go): user      *)
(* registration, login, refresh-token exchange and revocation, the         *)
(* access-token guard of the mutating handlers, chirp creation with        *)
(* moderation, chirp deletion, the administrative reset and the hit        *)
(* counter.                                                                *)
(*                                                                         *)
(* The packages internal/auth and internal/database are called by main.go  *)
(* but are not part of src/; their operations are modelled from the        *)
(* specification's collaborator contracts (sections 4.1-4.3 and 6).        *)
(***************************************************************************)
EXTENDS Integers, Sequences, FiniteSets, TLC

\* ------------------------------------------------------------------------
\* Bounds of the model
\* ------------------------------------------------------------------------
MaxUsers == 2
MaxRefresh == 2
MaxChirps == 1
MaxIssued == 1
MaxTicks == 1
MaxHits == 2
MaxWorkers == 2
MaxPieces == 3

\* ------------------------------------------------------------------------
\* Program constants
\* ------------------------------------------------------------------------
AccessTTL == 3600
MaxChirpLen == 140
MaxInt32 == 2147483647
\* A refresh token outlives an access token; the clock advances past the
\* lifetime of every token handed out before.
RefreshTTL == 2 * AccessTTL
TickLen == RefreshTTL + 1
NilUUID == 0
jwtSecret == "server-secret"
otherSecret == "other-secret"
NULL == "null"

Emails == {"a@x", "b@x"}
Passwords == {"pw1"}
WrongPassword == "pw2"

VARIABLES
    users,           \* users table: id -> [email, hashed_password]
    nextUser,        \* number of user ids generated so far
    chirps,          \* chirps table: id -> [body, user_id]
    nextChirp,       \* number of chirp ids generated so far
    refreshTokens,   \* refresh_tokens table: token -> [user_id, expires_at, revoked_at]
    nextRefresh,     \* number of refresh tokens generated so far
    issued,          \* access tokens handed out in responses
    now,             \* wall clock, seconds
    fileserverHits,  \* cfg.fileserverHits
    platform,        \* cfg.platform
    resp,            \* the last response written, with the request's essentials
    inflight,        \* a refresh request between its lookup and its response
    hitsAdded,       \* Add(1) calls on cfg.fileserverHits since the last Store(0)
    workers,         \* where each request worker of the file server and the reset is
    text,            \* the body handed to validateChirp
    moderated        \* what validateChirp returned for it

vars == <<users, nextUser, chirps, nextChirp, refreshTokens, nextRefresh,
          issued, now, fileserverHits, platform, resp, inflight,
          hitsAdded, workers, text, moderated>>

db == <<users, nextUser, chirps, nextChirp, refreshTokens, nextRefresh>>

\* What the API handlers never touch: the workers of the split file-server and
\* reset requests, and the call of validateChirp on its own.
elsewhere == <<workers, text, moderated>>

\* ------------------------------------------------------------------------
\* Strings: a body is a sequence of characters; a character is a short
\* string naming it.  "U+00E9" is one character of two bytes.
\* ------------------------------------------------------------------------
UpperSeq == <<"K", "E", "R", "F", "U", "L", "S", "H", "A", "B", "T", "O", "N", "X">>
LowerSeq == <<"k", "e", "r", "f", "u", "l", "s", "h", "a", "b", "t", "o", "n", "x">>

IsSpace(c) == c \in {" ", "\t", "\n"}

ByteLen(c) == IF c = "U+00E9" THEN 2 ELSE 1

\* len(s): the bytes of s, summed over its characters.
ByteLenOf(s) == Cardinality({<<i, b>> \in (1..Len(s)) \X (1..2) : b <= ByteLen(s[i])})

ToLowerChar(c) ==
    IF \E i \in 1..Len(UpperSeq) : UpperSeq[i] = c
    THEN LowerSeq[CHOOSE i \in 1..Len(UpperSeq) : UpperSeq[i] = c]
    ELSE c

ToLower(w) == [i \in 1..Len(w) |-> ToLowerChar(w[i])]

\* strings.Fields: the maximal runs of non-space characters, in order.  One
\* step skips the white space in front, cuts the word that follows and goes
\* on behind it.
RECURSIVE FieldsFrom(_, _)
FieldsFrom(s, acc) ==
    LET n == Len(s)
        blank == \A i \in 1..n : IsSpace(s[i])
        fieldStart == CHOOSE i \in 1..n :
                          ~IsSpace(s[i]) /\ \A j \in 1..(i - 1) : IsSpace(s[j])
        fieldEnd == CHOOSE i \in fieldStart..n :
                        /\ \A j \in fieldStart..i : ~IsSpace(s[j])
                        /\ i = n \/ IsSpace(s[i + 1])
    IN  IF blank THEN acc
        ELSE FieldsFrom(SubSeq(s, fieldEnd + 1, n),
                        Append(acc, SubSeq(s, fieldStart, fieldEnd)))

Fields(s) == FieldsFrom(s, <<>>)

\* strings.TrimSpace
RECURSIVE TrimLeft(_)
TrimLeft(s) == IF s # <<>> /\ IsSpace(Head(s)) THEN TrimLeft(Tail(s)) ELSE s

RECURSIVE TrimRight(_)
TrimRight(s) ==
    IF s # <<>> /\ IsSpace(s[Len(s)]) THEN TrimRight(SubSeq(s, 1, Len(s) - 1)) ELSE s

TrimSpace(s) == TrimRight(TrimLeft(s))

Mask == <<"*", "*", "*", "*">>

bannedWords ==
    { <<"k", "e", "r", "f", "u", "f", "f", "l", "e">>,
      <<"s", "h", "a", "r", "b", "e", "r", "t">>,
      <<"f", "o", "r", "n", "a", "x">> }

\* A loop that looks the word up as it is written, not lower-cased
RECURSIVE CensorLoopAsWritten(_, _, _)
CensorLoopAsWritten(words, badWords, result) ==
    IF words = <<>>
    THEN result
    ELSE LET ok == Head(words) \in badWords
             currString == IF ok THEN Mask ELSE Head(words)
         IN  CensorLoopAsWritten(Tail(words), badWords, result \o currString \o <<" ">>)

RECURSIVE CensorLoop(_, _, _)
CensorLoop(words, badWords, result) ==
    IF words = <<>>
    THEN result
    ELSE LET ok == ToLower(Head(words)) \in badWords
             currString == IF ok THEN Mask ELSE Head(words)
         IN  CensorLoop(Tail(words), badWords, result \o currString \o <<" ">>)

simpleCensor(input, badWords) == TrimSpace(CensorLoop(Fields(input), badWords, <<>>))

\* A validation that checks the length and hands the body back as it came
validateChirpUnfiltered(body) ==
    IF ByteLenOf(body) > MaxChirpLen
    THEN [ok |-> FALSE, body |-> <<>>]
    ELSE [ok |-> TRUE, body |-> body]

validateChirp(body) ==
    IF ByteLenOf(body) > MaxChirpLen
    THEN [ok |-> FALSE, body |-> <<>>]
    ELSE [ok |-> TRUE, body |-> simpleCensor(body, bannedWords)]

\* Request bodies offered to createChirpHandler.
BodyPlain == <<"h", "i">>
BodyBanned == <<" ", "K", "e", "r", "f", "u", "f", "f", "l", "e", " ", " ", "x">>
BodyLong == [i \in 1..(MaxChirpLen + 1) |-> "a"]
Bodies == {BodyPlain, BodyBanned, BodyLong}

\* ------------------------------------------------------------------------
\* internal/auth, modelled from the specification (4.1, 4.2, 4.3, 4.4)
\* ------------------------------------------------------------------------

\* Hash(plaintext): a digest that verifies against its plaintext only; the
\* failure case returns the empty hash and an error.
HashedPassword(password, fails) ==
    IF fails THEN [err |-> TRUE, hash |-> <<>>]
    ELSE [err |-> FALSE, hash |-> <<"bcrypt", password>>]

\* Verify(hash, plaintext): TRUE is the mismatch error.
CheckPasswordHash(hash, password) == hash # <<"bcrypt", password>>

\* Issue(userID, secret, ttl) at the current time t.
MakeJWT(userID, secret, ttl, t) ==
    [type |-> "jwt", sub |-> userID, iat |-> t, exp |-> t + ttl, key |-> secret]

\* Generate(): the n-th opaque random value; values never repeat.
MakeRefreshToken(n) == [type |-> "opaque", id |-> n]

\* Number of dot-separated segments of a bearer value: strings.Split(token, ".").
Segments(token) ==
    CASE token.type = "jwt" -> 3
      [] token.type = "opaque" -> 1
      [] OTHER -> token.segs

\* Validate(token, secret) at time t: malformed, bad signature, expired, or
\* the embedded subject.
ValidateJWT(token, secret, t) ==
    IF token.type # "jwt" THEN [err |-> "malformed", sub |-> NilUUID]
    ELSE IF token.key # secret THEN [err |-> "signature", sub |-> NilUUID]
    ELSE IF t > token.exp THEN [err |-> "expired", sub |-> NilUUID]
    ELSE [err |-> "none", sub |-> token.sub]

\* ExtractBearer(headers): the token of an exact "Bearer <token>" header.
GetBearerToken(header) ==
    IF header.kind = "bearer"
    THEN [err |-> FALSE, token |-> header.token]
    ELSE [err |-> TRUE, token |-> NULL]

\* ------------------------------------------------------------------------
\* Requests a client can send in the current state
\* ------------------------------------------------------------------------
\* A value of three segments that is no signed token.
RawTokens == {[type |-> "raw", segs |-> 3]}

\* A well-formed token for a user of the system, signed with another key.
ForgedTokens == {MakeJWT(u, otherSecret, AccessTTL, now) : u \in DOMAIN users \cap {1}}

\* Opaque values: every refresh token generated so far, and one that never was.
OpaqueTokens == {MakeRefreshToken(n) : n \in 0..nextRefresh}

HeadersOf(tokens) ==
    {[kind |-> "absent"], [kind |-> "noprefix"]}
        \cup {[kind |-> "bearer", token |-> t] : t \in tokens}

\* Authorization headers sent to the handlers that take an access token: none,
\* a malformed one, every access token handed out, a forged one, a garbage one
\* and the latest opaque value.
AccessHeaders ==
    HeadersOf(issued \cup ForgedTokens \cup RawTokens \cup {MakeRefreshToken(nextRefresh)})

\* Authorization headers sent to the refresh and revoke handlers: none, a
\* malformed one, every opaque value and a garbage one.
RefreshHeaders == HeadersOf(OpaqueTokens \cup RawTokens)

\* A decoded JSON body, or one the decoder rejects.
BadJSON == [ok |-> FALSE]

Credentials == [ok : {TRUE}, email : Emails, password : Passwords]

\* Login attempts: the right password, or another.
LoginBodies == [ok : {TRUE}, email : Emails, password : Passwords \cup {WrongPassword}]

\* createChirpHandler decodes into database.CreateChirpParams {Body, UserID}.
ChirpParams ==
    [ok : {TRUE}, Body : Bodies, UserID : {NilUUID}]
        \cup [ok : {TRUE}, Body : {BodyPlain}, UserID : {1}]

\* The {chirp_id} path value: a UUID string, or one uuid.Parse rejects.
BadPath == [valid |-> FALSE, id |-> 0]

ChirpPaths == {BadPath} \cup {[valid |-> TRUE, id |-> c] : c \in 1..MaxChirps}

ParseUUID(path) == [err |-> ~path.valid, id |-> path.id]

\* What the access-token check of 4.4 makes of a header at the current time:
\* "ok", or the cause of the failure.
AccessCheck(header) ==
    LET b == GetBearerToken(header) IN
    IF b.err THEN "missing"
    ELSE IF Segments(b.token) # 3 THEN "format"
    ELSE ValidateJWT(b.token, jwtSecret, now).err

AuthOK(header) == AccessCheck(header) = "none"

SubjectOf(header) == IF AuthOK(header) THEN header.token.sub ELSE NilUUID

\* ------------------------------------------------------------------------
\* internal/database, modelled from the specification (4.3, 6)
\* ------------------------------------------------------------------------
EmailTaken(email, except) ==
    \E u \in DOMAIN users : u # except /\ users[u].email = email

UserByEmail(email) == CHOOSE u \in DOMAIN users : users[u].email = email

Put(f, k, v) == [x \in DOMAIN f \cup {k} |-> IF x = k THEN v ELSE f[x]]

Drop(f, k) == [x \in DOMAIN f \ {k} |-> f[x]]

Empty == [x \in {} |-> NULL]

\* sql.NullTime
nullValue == [Valid |-> FALSE, Time |-> 0]

NullTimeOf(t) == [Valid |-> TRUE, Time |-> t]

\* CreateUser: email is unique; the id is fresh.
CreateUser(email, hash, dbErr) ==
    IF dbErr \/ EmailTaken(email, NilUUID)
    THEN [err |-> TRUE, id |-> NilUUID, users |-> users]
    ELSE [err |-> FALSE, id |-> nextUser + 1,
          users |-> Put(users, nextUser + 1, [email |-> email, hashed_password |-> hash])]

\* GetUserByEmail
GetUserByEmail(email, dbErr) ==
    IF dbErr \/ ~EmailTaken(email, NilUUID)
    THEN [err |-> TRUE, id |-> NilUUID]
    ELSE [err |-> FALSE, id |-> UserByEmail(email)]

\* CreateRefreshToken: Create(userID) stores {token, userID, issuedAt, expiresAt,
\* revokedAt = null}.
CreateRefreshToken(token, userID, dbErr) ==
    IF dbErr \/ userID \notin DOMAIN users
    THEN [err |-> TRUE, tokens |-> refreshTokens]
    ELSE [err |-> FALSE,
          tokens |-> Put(refreshTokens, token.id,
                         [user_id |-> userID, expires_at |-> now + RefreshTTL,
                          revoked_at |-> nullValue])]

\* GetUserFromRefreshToken: Lookup(token) -> record | NotFoundError.
GetUserFromRefreshToken(token, dbErr) ==
    IF dbErr \/ token.type # "opaque" \/ token.id \notin DOMAIN refreshTokens
    THEN [err |-> TRUE, found |-> FALSE]
    ELSE [err |-> FALSE, found |-> TRUE, token |-> token.id,
          user_id |-> refreshTokens[token.id].user_id,
          expires_at |-> refreshTokens[token.id].expires_at,
          revoked_at |-> refreshTokens[token.id].revoked_at]

\* RevokeRefreshToken: Revoke(token) -> ok | NotFoundError, sets revokedAt = now.
RevokeRefreshToken(token, dbErr) ==
    IF dbErr \/ token.type # "opaque" \/ token.id \notin DOMAIN refreshTokens
    THEN [err |-> TRUE, tokens |-> refreshTokens]
    ELSE [err |-> FALSE,
          tokens |-> [refreshTokens EXCEPT ![token.id].revoked_at = NullTimeOf(now)]]

\* CreateChirp: the owner must be a user; the id is fresh.
CreateChirp(body, userID, dbErr) ==
    IF dbErr \/ userID \notin DOMAIN users
    THEN [err |-> TRUE, id |-> 0, chirps |-> chirps]
    ELSE [err |-> FALSE, id |-> nextChirp + 1,
          chirps |-> Put(chirps, nextChirp + 1, [body |-> body, user_id |-> userID])]

\* GetIndividualChirp: find chirp by id -> chirp | not found.
GetIndividualChirp(id, dbErr) ==
    IF dbErr \/ id \notin DOMAIN chirps
    THEN [err |-> TRUE, found |-> FALSE, user_id |-> NilUUID]
    ELSE [err |-> FALSE, found |-> TRUE, user_id |-> chirps[id].user_id]

\* DeleteChirpByID
DeleteChirpByID(id, dbErr) ==
    IF dbErr THEN [err |-> TRUE, chirps |-> chirps]
    ELSE [err |-> FALSE, chirps |-> Drop(chirps, id)]

\* UpdateUserPassword: sets hashed_password and email of the row with this id;
\* no row is no error; email stays unique.
UpdateUserPassword(hash, email, id, dbErr) ==
    IF dbErr \/ (id \in DOMAIN users /\ EmailTaken(email, id))
    THEN [err |-> TRUE, users |-> users]
    ELSE [err |-> FALSE,
          users |-> [u \in DOMAIN users |->
                        IF u = id THEN [email |-> email, hashed_password |-> hash]
                        ELSE users[u]]]

\* GetUserByIDNoPassword, on the users table given
GetUserByIDNoPassword(table, id, dbErr) == dbErr \/ id \notin DOMAIN table

\* DeleteUsers: bulk delete; the users' chirps and refresh tokens go with them.
DeleteUsers(dbErr) ==
    IF dbErr
    THEN [err |-> TRUE, users |-> users, chirps |-> chirps, tokens |-> refreshTokens]
    ELSE [err |-> FALSE, users |-> Empty, chirps |-> Empty, tokens |-> Empty]

\* ------------------------------------------------------------------------
\* Responses
\* ------------------------------------------------------------------------

\* The response of the request just handled: the handler, the status code of
\* the first WriteHeader, the number of bodies written, the user the response
\* body names (the subject of the access token it carries, the owner of the
\* chirp or the user it returns; NilUUID for none), and of the request: the
\* stored object it reached (the refresh token or the chirp; 0 for none) and,
\* for a chirp made, the user id its body supplied.
Response(op, code, writes, sub, obj, client) ==
    [op |-> op, code |-> code, writes |-> writes, sub |-> sub, obj |-> obj,
     client |-> client,
     \* the same request on the same object as the one just answered with success
     again |-> resp.op = op /\ resp.obj = obj /\ obj # 0 /\ resp.code = code
               /\ code \in {200, 204}]

\* The access tokens clients hold once `minted` are handed out: a client keeps
\* at most MaxIssued of them and drops older ones for newer.
Held(minted) ==
    {h \in SUBSET (issued \cup minted) :
        /\ minted \subseteq h
        /\ Cardinality(h) = IF Cardinality(issued \cup minted) <= MaxIssued
                            THEN Cardinality(issued \cup minted) ELSE MaxIssued}

NoResponse ==
    [op |-> "none", code |-> 0, writes |-> 0, sub |-> NilUUID, obj |-> 0,
     client |-> NilUUID, again |-> FALSE]

\* The refresh token a header names: its number, 0 for an opaque value never
\* generated, -1 for no opaque value at all.
TokenOf(header) ==
    IF header.kind = "bearer" /\ header.token.type = "opaque" THEN header.token.id ELSE -1

Idle == [active |-> FALSE]

\* ------------------------------------------------------------------------
\* Handlers
\* ------------------------------------------------------------------------

\* POST /api/users
createUserHandler(body, hashFails, dbErr) ==
    /\ UNCHANGED <<chirps, nextChirp, refreshTokens, nextRefresh, issued, now,
                   fileserverHits, hitsAdded, platform, elsewhere, inflight>>
    /\ IF ~body.ok
       THEN /\ resp' = Response("createUser", 500, 1, NilUUID, 0, NilUUID)
            /\ UNCHANGED <<users, nextUser>>
       ELSE LET hashed == HashedPassword(body.password, hashFails)
                \* the hashing error is answered, and the handler goes on
                first == IF hashed.err THEN 1 ELSE 0
                created == CreateUser(body.email, hashed.hash, dbErr)
            IN  IF created.err
                THEN /\ resp' = Response("createUser", 500, first + 1,
                                         NilUUID, 0, NilUUID)
                     /\ UNCHANGED <<users, nextUser>>
                ELSE /\ nextUser < MaxUsers
                     /\ users' = created.users
                     /\ nextUser' = nextUser + 1
                     /\ resp' = Response("createUser",
                                         IF hashed.err THEN 500 ELSE 201, first + 1, created.id, 0, NilUUID)

\* A login that ends the user's earlier sessions: it revokes their tokens
loginUserHandlerSingleSession(body, dbErr) ==
    /\ UNCHANGED <<users, nextUser, chirps, nextChirp, now, fileserverHits, hitsAdded,
                   platform, elsewhere, inflight>>
    /\ LET user == GetUserByEmail(IF body.ok THEN body.email ELSE "", dbErr = 1) IN
       IF ~body.ok \/ user.err
       THEN /\ resp' = Response("login", 500, 1, NilUUID, 0, NilUUID)
            /\ UNCHANGED <<refreshTokens, nextRefresh, issued>>
       ELSE IF CheckPasswordHash(users[user.id].hashed_password, body.password)
       THEN /\ resp' = Response("login", 401, 1, NilUUID, 0, NilUUID)
            /\ UNCHANGED <<refreshTokens, nextRefresh, issued>>
       ELSE IF dbErr = 2
       THEN /\ resp' = Response("login", 500, 1, NilUUID, 0, NilUUID)
            /\ UNCHANGED <<refreshTokens, nextRefresh, issued>>
       ELSE /\ nextRefresh < MaxRefresh
            /\ refreshTokens' =
                  Put([t \in DOMAIN refreshTokens |->
                          IF refreshTokens[t].user_id = user.id
                          THEN [refreshTokens[t] EXCEPT !.revoked_at = NullTimeOf(now)]
                          ELSE refreshTokens[t]],
                      nextRefresh + 1,
                      [user_id |-> user.id, expires_at |-> now + RefreshTTL,
                       revoked_at |-> nullValue])
            /\ nextRefresh' = nextRefresh + 1
            /\ issued' \in Held({MakeJWT(user.id, jwtSecret, AccessTTL, now)})
            /\ resp' = Response("login", 200, 1, user.id, nextRefresh + 1, NilUUID)

\* POST /api/login
loginUserHandler(body, dbErr) ==
    /\ UNCHANGED <<users, nextUser, chirps, nextChirp, now, fileserverHits, hitsAdded,
                   platform, elsewhere, inflight>>
    /\ IF ~body.ok
       THEN /\ resp' = Response("login", 500, 1, NilUUID, 0, NilUUID)
            /\ UNCHANGED <<refreshTokens, nextRefresh, issued>>
       ELSE LET user == GetUserByEmail(body.email, dbErr = 1) IN
            IF user.err
            THEN /\ resp' = Response("login", 500, 1, NilUUID, 0, NilUUID)
                 /\ UNCHANGED <<refreshTokens, nextRefresh, issued>>
            ELSE IF CheckPasswordHash(users[user.id].hashed_password, body.password)
            THEN /\ resp' = Response("login", 401, 1, NilUUID, 0, NilUUID)
                 /\ UNCHANGED <<refreshTokens, nextRefresh, issued>>
            ELSE LET jwtToken == MakeJWT(user.id, jwtSecret, AccessTTL, now)
                     refreshToken == MakeRefreshToken(nextRefresh + 1)
                     createdRToken == CreateRefreshToken(refreshToken, user.id, dbErr = 2)
                 IN  IF createdRToken.err
                     THEN /\ resp' = Response("login", 500, 1, NilUUID, 0, NilUUID)
                          /\ UNCHANGED <<refreshTokens, nextRefresh, issued>>
                     ELSE /\ nextRefresh < MaxRefresh
                          /\ refreshTokens' = createdRToken.tokens
                          /\ nextRefresh' = nextRefresh + 1
                          /\ issued' \in Held({jwtToken})
                          /\ resp' = Response("login", 200, 1, user.id,
                                              refreshToken.id, NilUUID)

\* POST /api/refresh, up to the database lookup: what the handler holds after it.
RefreshLookup(header, dbErr) ==
    LET bearer == GetBearerToken(header) IN
    IF bearer.err
    THEN [active |-> TRUE, tok |-> TokenOf(header), bearerErr |-> TRUE,
          dbToken |-> [err |-> TRUE, found |-> FALSE]]
    ELSE [active |-> TRUE, tok |-> TokenOf(header), bearerErr |-> FALSE,
          dbToken |-> GetUserFromRefreshToken(bearer.token, dbErr)]

\* A response that does not look at revoked_at
RefreshRespondSkipsRevoked(held, t) ==
    IF held.bearerErr
    THEN [code |-> 500, sub |-> NilUUID, obj |-> 0, minted |-> {}]
    ELSE IF held.dbToken.err
    THEN [code |-> 500, sub |-> NilUUID, obj |-> 0, minted |-> {}]
    ELSE [code |-> 200, sub |-> held.dbToken.user_id, obj |-> held.dbToken.token,
          minted |-> {MakeJWT(held.dbToken.user_id, jwtSecret, AccessTTL, t)}]

\* POST /api/refresh, from the lookup's result to the response, at time t.
RefreshRespond(held, t) ==
    IF held.bearerErr
    THEN [code |-> 500, sub |-> NilUUID, obj |-> 0, minted |-> {}]
    ELSE IF held.dbToken.err
    THEN [code |-> 500, sub |-> NilUUID, obj |-> 0, minted |-> {}]
    ELSE IF held.dbToken.revoked_at # nullValue
    THEN [code |-> 401, sub |-> NilUUID, obj |-> held.dbToken.token, minted |-> {}]
    ELSE IF ~held.dbToken.found
    THEN [code |-> 404, sub |-> NilUUID, obj |-> 0, minted |-> {}]
    ELSE [code |-> 200, sub |-> held.dbToken.user_id, obj |-> held.dbToken.token,
          minted |-> {MakeJWT(held.dbToken.user_id, jwtSecret, AccessTTL, t)}]

\* The response and the token handed out, for what the handler holds.
RefreshFinish(held) ==
    LET r == RefreshRespond(held, now) IN
    /\ issued' \in Held(r.minted)
    /\ resp' = Response("refresh", r.code, 1, r.sub, r.obj, NilUUID)

\* An exchange that uses the refresh token up: it revokes the token it exchanged
refreshHandlerRotating(header, dbErr) ==
    LET held == RefreshLookup(header, dbErr) IN
    /\ RefreshFinish(held)
    /\ refreshTokens' =
          IF RefreshRespond(held, now).code = 200
          THEN [refreshTokens EXCEPT ![held.tok].revoked_at = NullTimeOf(now)]
          ELSE refreshTokens
    /\ UNCHANGED <<users, nextUser, chirps, nextChirp, nextRefresh, now,
                   fileserverHits, hitsAdded, platform, elsewhere, inflight>>

\* POST /api/refresh
refreshHandler(header, dbErr) ==
    /\ RefreshFinish(RefreshLookup(header, dbErr))
    /\ UNCHANGED <<db, now, fileserverHits, hitsAdded, platform, elsewhere, inflight>>

\* A revoke that answers an already revoked token with an error
revokeUpdateHandlerOnce(header, dbErr) ==
    /\ UNCHANGED <<users, nextUser, chirps, nextChirp, nextRefresh, issued, now,
                   fileserverHits, hitsAdded, platform, elsewhere, inflight>>
    /\ LET bearer == GetBearerToken(header)
           revoked == RevokeRefreshToken(bearer.token, dbErr)
       IN
       IF bearer.err \/ revoked.err
             \/ refreshTokens[bearer.token.id].revoked_at # nullValue
       THEN /\ resp' = Response("revoke", 500, 1, NilUUID, 0, NilUUID)
            /\ UNCHANGED refreshTokens
       ELSE /\ refreshTokens' = revoked.tokens
            /\ resp' = Response("revoke", 204, 1, NilUUID, TokenOf(header), NilUUID)

\* POST /api/revoke
revokeUpdateHandler(header, dbErr) ==
    /\ UNCHANGED <<users, nextUser, chirps, nextChirp, nextRefresh, issued, now,
                   fileserverHits, hitsAdded, platform, elsewhere, inflight>>
    /\ LET bearer == GetBearerToken(header) IN
       IF bearer.err
       THEN /\ resp' = Response("revoke", 500, 1, NilUUID, 0, NilUUID)
            /\ UNCHANGED refreshTokens
       ELSE LET revoked == RevokeRefreshToken(bearer.token, dbErr) IN
            IF revoked.err
            THEN /\ resp' = Response("revoke", 500, 1, NilUUID, 0, NilUUID)
                 /\ UNCHANGED refreshTokens
            ELSE /\ refreshTokens' = revoked.tokens
                 /\ resp' = Response("revoke", 204, 1, NilUUID,
                                     TokenOf(header), NilUUID)

\* POST /admin/reset
resetHandler(dbErr) ==
    /\ UNCHANGED <<nextUser, nextChirp, nextRefresh, issued, now, platform, elsewhere, inflight>>
    /\ IF platform # "dev"
       THEN /\ resp' = Response("reset", 403, 1, NilUUID, 0, NilUUID)
            /\ UNCHANGED <<users, chirps, refreshTokens, fileserverHits, hitsAdded>>
       ELSE LET deleted == DeleteUsers(dbErr) IN
            /\ fileserverHits' = 0
            /\ hitsAdded' = 0
            /\ users' = deleted.users
            /\ chirps' = deleted.chirps
            /\ refreshTokens' = deleted.tokens
            /\ resp' = Response("reset", IF deleted.err THEN 500 ELSE 200, 1,
                                NilUUID, 0, NilUUID)

\* The outcome of a handler's access-token check: the status code it answers
\* with (0 to go on) and the user the request acts for.
Reject(code) == [code |-> code, userID |-> NilUUID]

Accept(userID) == [code |-> 0, userID |-> userID]

\* POST /api/chirps, up to the validated user id (the body is decoded on the way)
createChirpGuard(header, parameters) ==
    LET bearer == GetBearerToken(header) IN
    IF bearer.err THEN Reject(401)
    ELSE IF Segments(bearer.token) # 3 THEN Reject(401)
    ELSE IF ~parameters.ok THEN Reject(500)
    ELSE LET validated == ValidateJWT(bearer.token, jwtSecret, now) IN
         IF validated.err # "none" THEN Reject(401)
         ELSE IF validated.sub = NilUUID THEN Reject(401)
         ELSE Accept(validated.sub)

\* parameters.UserID = userID: a body that trusts the client's user id instead
OwnedParamsTrusting(parameters, userID) ==
    IF parameters.UserID # NilUUID THEN parameters
    ELSE [parameters EXCEPT !.UserID = userID]

\* parameters.UserID = userID
OwnedParams(parameters, userID) == [parameters EXCEPT !.UserID = userID]

\* POST /api/chirps
createChirpHandler(header, parameters, dbErr) ==
    LET guard == createChirpGuard(header, parameters)
        userID == guard.userID
        Answer(code) ==
            /\ resp' = Response("createChirp", code, 1, NilUUID, 0, NilUUID)
            /\ UNCHANGED <<chirps, nextChirp>>
    IN
    /\ UNCHANGED <<users, nextUser, refreshTokens, nextRefresh, issued, now,
                   fileserverHits, hitsAdded, platform, elsewhere, inflight>>
    /\ IF guard.code # 0 THEN Answer(guard.code)
       ELSE LET checked == validateChirp(parameters.Body) IN
            IF ~checked.ok THEN Answer(400)
            ELSE \* parameters.Body = cleanBody
                 LET owned == OwnedParams(parameters, userID)
                     chirp == CreateChirp(checked.body, owned.UserID, dbErr)
                 IN
                 IF chirp.err THEN Answer(500)
                 ELSE /\ nextChirp < MaxChirps
                      /\ chirps' = chirp.chirps
                      /\ nextChirp' = nextChirp + 1
                      /\ resp' = Response("createChirp", 201, 1,
                                          chirp.chirps[chirp.id].user_id, chirp.id,
                                          parameters.UserID)

\* An access-token check that also looks the user up in the users table
updateUserGuardLooksUp(header) ==
    LET bearer == GetBearerToken(header) IN
    IF bearer.err THEN Reject(401)
    ELSE IF Segments(bearer.token) # 3 THEN Reject(401)
    ELSE LET validated == ValidateJWT(bearer.token, jwtSecret, now) IN
         IF validated.err # "none" THEN Reject(401)
         ELSE IF validated.sub \notin DOMAIN users THEN Reject(401)
         ELSE Accept(validated.sub)

\* PUT /api/users, up to the validated user id
updateUserGuard(header) ==
    LET bearer == GetBearerToken(header) IN
    IF bearer.err THEN Reject(401)
    ELSE IF Segments(bearer.token) # 3 THEN Reject(401)
    ELSE LET validated == ValidateJWT(bearer.token, jwtSecret, now) IN
         IF validated.err # "none" THEN Reject(401)
         ELSE Accept(validated.sub)

\* Arguments that name the row by the email of the body
newArgumentsByEmail(hash, params, userID) ==
    [HashedPassword |-> hash, Email |-> params.email,
     ID |-> IF \E u \in DOMAIN users : users[u].email = params.email
            THEN UserByEmail(params.email)
            ELSE userID]

\* newArguments := database.UpdateUserPasswordParams{...}
newArguments(hash, params, userID) ==
    [HashedPassword |-> hash, Email |-> params.email, ID |-> userID]

\* PUT /api/users
updateUserHandler(header, params, hashFails, dbErr) ==
    LET guard == updateUserGuard(header)
        userID == guard.userID
        Answer(code, sub) ==
            resp' = Response("updateUser", code, 1, sub, 0, NilUUID)
    IN
    /\ UNCHANGED <<nextUser, chirps, nextChirp, refreshTokens, nextRefresh, issued,
                   now, fileserverHits, hitsAdded, platform, elsewhere, inflight>>
    /\ IF guard.code # 0 THEN Answer(guard.code, NilUUID) /\ UNCHANGED users
       ELSE IF ~params.ok THEN Answer(500, NilUUID) /\ UNCHANGED users
       ELSE LET hashedPassword == HashedPassword(params.password, hashFails) IN
            IF hashedPassword.err THEN Answer(500, NilUUID) /\ UNCHANGED users
            ELSE LET args == newArguments(hashedPassword.hash, params, userID)
                     updated == UpdateUserPassword(args.HashedPassword, args.Email,
                                                   args.ID, dbErr = 1)
                 IN
                 IF updated.err THEN Answer(500, NilUUID) /\ UNCHANGED users
                 ELSE /\ users' = updated.users
                      /\ IF GetUserByIDNoPassword(updated.users, userID, dbErr = 2)
                         THEN Answer(500, NilUUID)
                         ELSE Answer(200, userID)

\* DELETE /api/chirps/{chirp_id}, from the parsed id up to the validated user id
deleteChirpGuard(header) ==
    LET bearer == GetBearerToken(header) IN
    IF bearer.err THEN Reject(401)
    ELSE IF Segments(bearer.token) # 3 THEN Reject(401)
    ELSE LET validated == ValidateJWT(bearer.token, jwtSecret, now) IN
         IF validated.err # "none" THEN Reject(500)
         ELSE Accept(validated.sub)

\* chirp.UserID != userID: a check that lets every user through
NotAuthorNever(chirp, userID) == FALSE

\* chirp.UserID != userID
NotAuthor(chirp, userID) == chirp.user_id # userID

\* DELETE /api/chirps/{chirp_id}
deleteChirpFromID(path, header, dbErr) ==
    LET parsed == ParseUUID(path)
        newChirpID == parsed.id
        guard == deleteChirpGuard(header)
        userID == guard.userID
        Answer(code, obj) ==
            /\ resp' = Response("deleteChirp", code, 1, NilUUID, obj, NilUUID)
            /\ UNCHANGED chirps
    IN
    /\ UNCHANGED <<users, nextUser, nextChirp, refreshTokens, nextRefresh, issued,
                   now, fileserverHits, hitsAdded, platform, elsewhere, inflight>>
    /\ IF parsed.err THEN Answer(400, 0)
       ELSE IF guard.code # 0 THEN Answer(guard.code, 0)
       ELSE LET chirp == GetIndividualChirp(newChirpID, dbErr = 1) IN
            IF chirp.err THEN Answer(500, 0)
            ELSE IF ~chirp.found THEN Answer(404, 0)
            ELSE IF NotAuthor(chirp, userID) THEN Answer(403, newChirpID)
            ELSE LET deleted == DeleteChirpByID(newChirpID, dbErr = 2) IN
                 IF deleted.err THEN Answer(500, newChirpID)
                 ELSE /\ chirps' = deleted.chirps
                      /\ resp' = Response("deleteChirp", 204, 1, NilUUID,
                                          newChirpID, NilUUID)

\* An Add that writes back the value it read before other workers added
AddStale(v, delta) == IF v = 0 THEN delta ELSE v

\* atomic.Int32.Add: the sum in 32 bits, two's complement.
Add(v, delta) ==
    IF v > MaxInt32 - delta
    THEN ((v - MaxInt32) - 1) + delta - MaxInt32 - 1
    ELSE v + delta

\* The file server behind middlewareMetricsInc: one more hit.
middlewareMetricsInc ==
    /\ fileserverHits < MaxHits
    /\ fileserverHits' = Add(fileserverHits, 1)
    /\ hitsAdded' = hitsAdded + 1
    /\ resp' = Response("fileserver", 200, 1, NilUUID, 0, NilUUID)
    /\ UNCHANGED <<db, issued, now, platform, elsewhere, inflight>>

\* GET /admin/metrics: reports the counter.
metricsHandler ==
    /\ resp' = Response("metrics", 200, 1, NilUUID, fileserverHits, NilUUID)
    /\ UNCHANGED <<db, issued, now, fileserverHits, hitsAdded, platform, elsewhere, inflight>>

\* The request workers net/http runs the split requests on.
Workers == 1..MaxWorkers

\* validateChirp has not returned.
NotCalled == [called |-> FALSE]

\* Time passes between requests.
Tick ==
    /\ now < MaxTicks * TickLen
    /\ now' = now + TickLen
    /\ UNCHANGED <<db, issued, fileserverHits, hitsAdded, platform, elsewhere, resp, inflight>>

\* ------------------------------------------------------------------------
\* Specification: every request is handled in one step
\* ------------------------------------------------------------------------
Boot ==
    /\ users = Empty
    /\ nextUser = 0
    /\ chirps = Empty
    /\ nextChirp = 0
    /\ refreshTokens = Empty
    /\ nextRefresh = 0
    /\ issued = {}
    /\ now = 0
    /\ fileserverHits = 0
    /\ platform \in {"dev", "prod"}
    /\ resp = NoResponse
    /\ inflight = Idle
    /\ hitsAdded = 0
    /\ workers = [w \in Workers |-> "idle"]
    /\ moderated = NotCalled

\* The server with no chirp body at hand.
Init == Boot /\ text = <<>>

\* The platform on which the reset is allowed; on any other resetHandler
\* changes nothing.
InitDev == Init /\ platform = "dev"

\* Which database call of a request fails: none, the first or the second.
DbErrs == 0..2

\* One fault at most in a request that hashes and calls the database twice.
Faults ==
    {[hash |-> FALSE, db |-> d] : d \in DbErrs} \cup {[hash |-> TRUE, db |-> 0]}

CreateUserReq ==
    \E body \in {BadJSON} \cup Credentials, hashFails \in BOOLEAN, dbErr \in BOOLEAN :
        createUserHandler(body, hashFails, dbErr)

LoginReq ==
    \E body \in {BadJSON} \cup LoginBodies, dbErr \in DbErrs : loginUserHandler(body, dbErr)

RefreshReq ==
    \E header \in RefreshHeaders, dbErr \in BOOLEAN : refreshHandler(header, dbErr)

RevokeReq ==
    \E header \in RefreshHeaders, dbErr \in BOOLEAN : revokeUpdateHandler(header, dbErr)

ResetReq == \E dbErr \in BOOLEAN : resetHandler(dbErr)

CreateChirpReq ==
    \E header \in AccessHeaders, parameters \in {BadJSON} \cup ChirpParams,
       dbErr \in BOOLEAN :
        createChirpHandler(header, parameters, dbErr)

UpdateUserReq ==
    \E header \in AccessHeaders, params \in {BadJSON} \cup Credentials,
       fault \in Faults :
        updateUserHandler(header, params, fault.hash, fault.db)

DeleteChirpReq ==
    \E path \in ChirpPaths, header \in AccessHeaders, dbErr \in DbErrs :
        deleteChirpFromID(path, header, dbErr)

FileServerReq == middlewareMetricsInc

MetricsReq == metricsHandler

\* The whole server.
Next ==
    \/ CreateUserReq
    \/ LoginReq
    \/ RefreshReq
    \/ RevokeReq
    \/ ResetReq
    \/ CreateChirpReq
    \/ UpdateUserReq
    \/ DeleteChirpReq
    \/ FileServerReq
    \/ MetricsReq
    \/ Tick

Spec == Init /\ [][Next]_vars

\* The session lifecycle: the requests that read or write the users and
\* refresh_tokens tables and hand out access tokens.  The requests left out
\* write none of these, except updateUserHandler, and every users table that
\* one produces createUserHandler produces too.
NextSession ==
    \/ CreateUserReq
    \/ LoginReq
    \/ RefreshReq
    \/ RevokeReq
    \/ ResetReq
    \/ Tick

SpecSession == InitDev /\ [][NextSession]_vars

\* The handlers behind the access-token check, with the requests that make
\* users and access tokens, revoke refresh tokens and reset the tables.
\* refreshHandler, left out, writes no table, and every access token it hands
\* out loginUserHandler hands out too.
NextResource ==
    \/ CreateUserReq
    \/ LoginReq
    \/ RevokeReq
    \/ ResetReq
    \/ CreateChirpReq
    \/ UpdateUserReq
    \/ DeleteChirpReq
    \/ Tick

SpecResource == InitDev /\ [][NextResource]_vars

\* ------------------------------------------------------------------------
\* Specification: the session lifecycle with a refresh request handled on
\* its own worker, other requests running between its database lookup and
\* its response
\* ------------------------------------------------------------------------

\* refreshHandler up to the return of GetUserFromRefreshToken
refreshBegin(header, dbErr) ==
    /\ ~inflight.active
    /\ inflight' = RefreshLookup(header, dbErr)
    /\ UNCHANGED <<db, issued, now, fileserverHits, hitsAdded, platform, elsewhere, resp>>

\* refreshHandler from there to its response
refreshEnd ==
    /\ inflight.active
    /\ RefreshFinish(inflight)
    /\ inflight' = Idle
    /\ UNCHANGED <<db, now, fileserverHits, hitsAdded, platform, elsewhere>>

RefreshBeginReq ==
    \E header \in RefreshHeaders, dbErr \in BOOLEAN : refreshBegin(header, dbErr)

NextConc ==
    \/ CreateUserReq
    \/ LoginReq
    \/ RefreshBeginReq
    \/ refreshEnd
    \/ RevokeReq
    \/ ResetReq
    \/ Tick

SpecConc == InitDev /\ [][NextConc]_vars

\* ------------------------------------------------------------------------
\* Specification: validateChirp on its own, called once on a body drawn from
\* short bodies made of words and whitespace and from bodies about as long
\* as the limit
\* ------------------------------------------------------------------------
Run(n) == [i \in 1..n |-> "a"]

\* Whitespace, words of the banned set in several cases, a banned word with
\* punctuation attached, a plain word and a word of one two-byte character.
Pieces ==
    { <<" ">>, <<"\t">>, <<"h", "i">>,
      <<"K", "e", "r", "F", "u", "f", "f", "l", "e">>,
      <<"s", "h", "a", "r", "b", "e", "r", "t">>,
      <<"F", "O", "R", "N", "A", "X">>,
      <<"k", "e", "r", "f", "u", "f", "f", "l", "e", "!">>,
      <<"U+00E9">> }

RECURSIVE Flatten(_)
Flatten(ps) == IF ps = <<>> THEN <<>> ELSE Head(ps) \o Flatten(Tail(ps))

ShortTexts == {Flatten(ps) : ps \in UNION {[1..n -> Pieces] : n \in 0..MaxPieces}}

LongTexts ==
    {Run(n) \o t : n \in (MaxChirpLen - 1)..(MaxChirpLen + 1),
                   t \in {<<>>, <<"U+00E9">>, <<" ">>, <<" ", "h", "i">>}}

Texts == ShortTexts \cup LongTexts

InitModeration == Boot /\ platform = "dev" /\ text \in Texts

\* ok, cleanBody := validateChirp(parameters.Body)
validateChirpCall ==
    /\ ~moderated.called
    /\ LET r == validateChirp(text) IN
       moderated' = [called |-> TRUE, ok |-> r.ok, body |-> r.body]
    /\ UNCHANGED <<db, issued, now, fileserverHits, hitsAdded, platform, resp,
                   inflight, workers, text>>

NextModeration == validateChirpCall

SpecModeration == InitModeration /\ [][NextModeration]_vars

\* ------------------------------------------------------------------------
\* Specification: posting chirps, with bodies of one word or one run of
\* whitespace, bodies at the limit, and the bodies above
\* ------------------------------------------------------------------------
PostBodies ==
    Bodies \cup Pieces
        \cup {Run(MaxChirpLen), Run(MaxChirpLen - 2) \o <<" ", "U+00E9">>}

PostParams == [ok : {TRUE}, Body : PostBodies, UserID : {NilUUID}]

CreatePostReq ==
    \E header \in AccessHeaders, parameters \in PostParams, dbErr \in BOOLEAN :
        createChirpHandler(header, parameters, dbErr)

NextPost ==
    \/ CreateUserReq
    \/ LoginReq
    \/ CreatePostReq
    \/ Tick

SpecPost == InitDev /\ [][NextPost]_vars

\* ------------------------------------------------------------------------
\* Specification: accounts, with updates that bring a new email and a new
\* password
\* ------------------------------------------------------------------------
NewEmail == "c@x"

AccountParams ==
    [ok : {TRUE}, email : Emails \cup {NewEmail},
     password : Passwords \cup {WrongPassword}]

UpdateAccountReq ==
    \E header \in AccessHeaders, params \in {BadJSON} \cup AccountParams,
       fault \in Faults :
        updateUserHandler(header, params, fault.hash, fault.db)

NextAccount ==
    \/ CreateUserReq
    \/ LoginReq
    \/ UpdateAccountReq
    \/ Tick

SpecAccount == InitDev /\ [][NextAccount]_vars

\* ------------------------------------------------------------------------
\* Specification: the administrative side on either platform: users are
\* made, the file server is hit, the counter is read and the reset is asked
\* for
\* ------------------------------------------------------------------------
NextAdmin ==
    \/ CreateUserReq
    \/ FileServerReq
    \/ MetricsReq
    \/ ResetReq

SpecAdmin == Init /\ [][NextAdmin]_vars

\* ------------------------------------------------------------------------
\* Specification: file-server requests and resets each on a worker of its
\* own, one statement of a handler at a time
\* ------------------------------------------------------------------------
At(w, pc) == [workers EXCEPT ![w] = pc]

\* Requests that have entered middlewareMetricsInc and not yet added.
Adding == {w \in Workers : workers[w] = "add"}

\* A request reaches the handler func of middlewareMetricsInc.
fileServerEnter(w) ==
    /\ workers[w] = "idle"
    /\ fileserverHits + Cardinality(Adding) < MaxHits
    /\ workers' = At(w, "add")
    /\ UNCHANGED <<db, issued, now, fileserverHits, hitsAdded, platform, resp,
                   inflight, text, moderated>>

\* cfg.fileserverHits.Add(1)
fileServerAdd(w) ==
    /\ workers[w] = "add"
    /\ fileserverHits' = Add(fileserverHits, 1)
    /\ hitsAdded' = hitsAdded + 1
    /\ workers' = At(w, "serve")
    /\ UNCHANGED <<db, issued, now, platform, resp, inflight, text, moderated>>

\* next.ServeHTTP(w, r)
fileServerServe(w) ==
    /\ workers[w] = "serve"
    /\ resp' = Response("fileserver", 200, 1, NilUUID, 0, NilUUID)
    /\ workers' = At(w, "idle")
    /\ UNCHANGED <<db, issued, now, fileserverHits, hitsAdded, platform,
                   inflight, text, moderated>>

\* resetHandler up to the platform check
resetEnter(w) ==
    /\ workers[w] = "idle"
    /\ IF platform # "dev"
       THEN /\ resp' = Response("reset", 403, 1, NilUUID, 0, NilUUID)
            /\ UNCHANGED workers
       ELSE /\ workers' = At(w, "store")
            /\ UNCHANGED resp
    /\ UNCHANGED <<db, issued, now, fileserverHits, hitsAdded, platform,
                   inflight, text, moderated>>

\* cfg.fileserverHits.Store(0)
resetStore(w) ==
    /\ workers[w] = "store"
    /\ fileserverHits' = 0
    /\ hitsAdded' = 0
    /\ workers' = At(w, "delete")
    /\ UNCHANGED <<db, issued, now, platform, resp, inflight, text, moderated>>

\* resetHandler from DeleteUsers to the response
resetDelete(w, dbErr) ==
    /\ workers[w] = "delete"
    /\ LET deleted == DeleteUsers(dbErr) IN
       /\ users' = deleted.users
       /\ chirps' = deleted.chirps
       /\ refreshTokens' = deleted.tokens
       /\ resp' = Response("reset", IF deleted.err THEN 500 ELSE 200, 1,
                           NilUUID, 0, NilUUID)
    /\ workers' = At(w, "idle")
    /\ UNCHANGED <<nextUser, nextChirp, nextRefresh, issued, now, fileserverHits,
                   hitsAdded, platform, inflight, text, moderated>>

FileServerEnterReq == \E w \in Workers : fileServerEnter(w)

FileServerAddStep == \E w \in Workers : fileServerAdd(w)

FileServerServeStep == \E w \in Workers : fileServerServe(w)

ResetEnterReq == \E w \in Workers : resetEnter(w)

ResetStoreStep == \E w \in Workers : resetStore(w)

ResetDeleteStep == \E w \in Workers, dbErr \in BOOLEAN : resetDelete(w, dbErr)

NextHits ==
    \/ FileServerEnterReq
    \/ FileServerAddStep
    \/ FileServerServeStep
    \/ ResetEnterReq
    \/ ResetStoreStep
    \/ ResetDeleteStep
    \/ MetricsReq

SpecHits == Init /\ [][NextHits]_vars

\* ------------------------------------------------------------------------
\* Properties
\* ------------------------------------------------------------------------
Revoked(t) == t \in DOMAIN refreshTokens /\ refreshTokens[t].revoked_at # nullValue

Expired(t) == t \in DOMAIN refreshTokens /\ now > refreshTokens[t].expires_at

Bearer(token) == [kind |-> "bearer", token |-> token]

\* C1: a refresh token whose record has revoked_at set never yields an access
\* token again.  A record once revoked stays revoked for as long as it is
\* stored, a record once deleted does not come back, and every refreshHandler
\* call naming a revoked record answers 401 (500 if the lookup itself fails),
\* with no access token in the response and none handed out.
C1_RevokedNeverExchanges ==
    [][/\ \A t \in DOMAIN refreshTokens :
            Revoked(t) => (t \notin DOMAIN refreshTokens' \/ Revoked(t)')
       /\ \A t \in 1..nextRefresh :
            t \notin DOMAIN refreshTokens => t \notin DOMAIN refreshTokens'
       /\ \A header \in RefreshHeaders, dbErr \in BOOLEAN :
            (resp'.op = "refresh" /\ Revoked(TokenOf(header))
                /\ refreshHandler(header, dbErr))
            => /\ resp'.code = IF dbErr THEN 500 ELSE 401
               /\ resp'.sub = NilUUID
               /\ issued' = issued]_vars

\* A refresh request has just been refused for a revoked token whose record
\* the lookup found.
C1_Witness ==
    /\ resp.op = "refresh"
    /\ resp.code = 401
    /\ Revoked(resp.obj)

\* C2: a delete request carrying a valid access token of a user who is not
\* the chirp's owner removes nothing and, whenever the chirp lookup answers,
\* is answered 403; deleteChirpFromID removes a chirp only for a valid token
\* of its owner, and then exactly the chirp named.
C2_OnlyOwnerDeletes ==
    [][resp'.op = "deleteChirp"
       => /\ \A path \in ChirpPaths, header \in AccessHeaders, dbErr \in DbErrs :
                (/\ path.id \in DOMAIN chirps
                 /\ AuthOK(header)
                 /\ SubjectOf(header) # chirps[path.id].user_id
                 /\ deleteChirpFromID(path, header, dbErr))
                => /\ chirps' = chirps
                   /\ dbErr # 1 => resp'.code = 403
          /\ chirps' # chirps
             => \A path \in ChirpPaths, header \in AccessHeaders, dbErr \in DbErrs :
                   deleteChirpFromID(path, header, dbErr)
                   => /\ AuthOK(header)
                      /\ path.id \in DOMAIN chirps
                      /\ chirps[path.id].user_id = SubjectOf(header)
                      /\ chirps' = Drop(chirps, path.id)]_vars

\* A delete has just been refused with 403 and the chirp it named is stored.
C2_Witness ==
    /\ resp.op = "deleteChirp"
    /\ resp.code = 403
    /\ resp.obj \in DOMAIN chirps

\* C3: every chirp createChirpHandler stores is owned by the subject of the
\* request's validated access token, whatever user id the body supplies, and
\* no request changes the owner of a stored chirp.
C3_ChirpOwnerIsTokenSubject ==
    [][/\ \A c \in DOMAIN chirps \cap DOMAIN chirps' :
            chirps'[c].user_id = chirps[c].user_id
       /\ (resp'.op = "createChirp" /\ chirps' # chirps)
          => \A header \in AccessHeaders, parameters \in {BadJSON} \cup ChirpParams,
                dbErr \in BOOLEAN :
                createChirpHandler(header, parameters, dbErr)
                => /\ AuthOK(header)
                   /\ resp'.code = 201
                   /\ DOMAIN chirps' = DOMAIN chirps \cup {resp'.obj}
                   /\ resp'.obj \notin DOMAIN chirps
                   /\ chirps'[resp'.obj].user_id = SubjectOf(header)
                   /\ resp'.sub = SubjectOf(header)]_vars

\* A chirp has just been made from a body that supplied the id of another
\* user than the token's.
C3_Witness ==
    /\ resp.op = "createChirp"
    /\ resp.code = 201
    /\ resp.client \notin {NilUUID, resp.sub}
    /\ resp.obj \in DOMAIN chirps
    /\ chirps[resp.obj].user_id = resp.sub

\* C4: exchanging an unrevoked refresh token past its expires_at is refused
\* and yields no access token.
C4_ExpiredRefreshRejected ==
    [][\A header \in RefreshHeaders, dbErr \in BOOLEAN :
            (resp'.op = "refresh" /\ Expired(TokenOf(header))
                /\ ~Revoked(TokenOf(header)) /\ refreshHandler(header, dbErr))
            => /\ resp'.code \notin {200}
               /\ resp'.sub = NilUUID
               /\ issued' = issued]_vars

\* C5: an exchange running on its own worker answers with an access token
\* only if the record of its refresh token is not revoked at that moment.
C5_NoExchangeAfterRevoke ==
    [][(inflight.active /\ ~inflight'.active /\ resp'.code = 200)
            => ~Revoked(inflight.tok)]_vars

\* C6: in createChirpHandler, updateUserHandler and deleteChirpFromID every
\* request whose access-token check fails is answered 401, whatever its body.
C6_AuthFailureIsUnauthorized ==
    [][/\ \A header \in AccessHeaders, parameters \in {BadJSON} \cup ChirpParams,
             dbErr \in BOOLEAN :
            (resp'.op = "createChirp" /\ ~AuthOK(header)
                /\ createChirpHandler(header, parameters, dbErr))
            => resp'.code = 401
       /\ \A header \in AccessHeaders, params \in {BadJSON} \cup Credentials,
             fault \in Faults :
            (resp'.op = "updateUser" /\ ~AuthOK(header)
                /\ updateUserHandler(header, params, fault.hash, fault.db))
            => resp'.code = 401
       /\ \A path \in ChirpPaths, header \in AccessHeaders, dbErr \in DbErrs :
            (resp'.op = "deleteChirp" /\ ~AuthOK(header)
                /\ deleteChirpFromID(path, header, dbErr))
            => resp'.code = 401]_vars

\* C7: a successful exchange changes no table, and the same request sent again
\* right after succeeds again, with an access token for the same user.
C7_ExchangeRepeatable ==
    [][\A header \in RefreshHeaders, dbErr \in BOOLEAN :
            (resp'.op = "refresh" /\ resp'.code = 200
                /\ refreshHandler(header, dbErr))
            => /\ db' = db
               /\ RefreshRespond(RefreshLookup(header, FALSE), now)'.code = 200
               /\ RefreshRespond(RefreshLookup(header, FALSE), now)'.sub = resp'.sub
               /\ resp'.sub = refreshTokens[TokenOf(header)].user_id]_vars

\* The same refresh token has just been exchanged twice in a row.
C7_Witness ==
    /\ resp.op = "refresh"
    /\ resp.code = 200
    /\ resp.again
    /\ resp.sub = refreshTokens[resp.obj].user_id

\* C8: revoking a revoked refresh token answers 204 (the database answering),
\* the record stays revoked and an exchange is still refused with 401.
C8_RevokeTwice ==
    [][\A header \in RefreshHeaders :
            (resp'.op = "revoke" /\ Revoked(TokenOf(header))
                /\ revokeUpdateHandler(header, FALSE))
            => /\ resp'.code = 204
               /\ Revoked(TokenOf(header))'
               /\ RefreshRespond(RefreshLookup(header, FALSE), now)'.code = 401]_vars

\* The same refresh token has just been revoked twice in a row.
C8_Witness ==
    /\ resp.op = "revoke"
    /\ resp.code = 204
    /\ resp.again
    /\ Revoked(resp.obj)

\* C9: a successful login adds exactly one refresh-token record, unrevoked and
\* bound to the user who logged in, and changes no record stored before.
C9_LoginAddsOneToken ==
    [][\A body \in {BadJSON} \cup LoginBodies, dbErr \in DbErrs :
            (resp'.op = "login" /\ resp'.code = 200 /\ loginUserHandler(body, dbErr))
            => /\ resp'.obj \notin DOMAIN refreshTokens
               /\ DOMAIN refreshTokens' = DOMAIN refreshTokens \cup {resp'.obj}
               /\ refreshTokens'[resp'.obj].user_id = UserByEmail(body.email)
               /\ refreshTokens'[resp'.obj].revoked_at = nullValue
               /\ resp'.sub = UserByEmail(body.email)
               /\ \A t \in DOMAIN refreshTokens : refreshTokens'[t] = refreshTokens[t]]_vars

\* A user has just logged in while holding an unrevoked token of an earlier
\* login.
C9_Witness ==
    /\ resp.op = "login"
    /\ resp.code = 200
    /\ \E t \in DOMAIN refreshTokens :
          /\ t # resp.obj
          /\ refreshTokens[t].user_id = resp.sub
          /\ ~Revoked(t)

\* C10: the access-token checks of the three handlers decide by the token, the
\* secret and the clock alone: no request that changes a table changes what
\* they decide for a header, and every access token handed out passes them
\* until its expiry, whatever has become of the tables.
C10_AuthIgnoresDatabase ==
    /\ [][(now' = now /\ db' # db)
            => \A header \in AccessHeaders :
                  /\ updateUserGuard(header)' = updateUserGuard(header)
                  /\ deleteChirpGuard(header)' = deleteChirpGuard(header)
                  /\ \A parameters \in {BadJSON} \cup ChirpParams :
                        createChirpGuard(header, parameters)'
                            = createChirpGuard(header, parameters)]_vars
    /\ [](\A token \in issued :
            now <= token.exp
            => /\ updateUserGuard(Bearer(token)) = Accept(token.sub)
               /\ deleteChirpGuard(Bearer(token)) = Accept(token.sub)
               /\ \A parameters \in ChirpParams :
                     createChirpGuard(Bearer(token), parameters) = Accept(token.sub))

\* An update has just passed the access-token check for a user who is no
\* longer stored: the tables were reset after the token was handed out.
C10_Witness ==
    /\ resp.op = "updateUser"
    /\ resp.code = 500
    /\ users = Empty
    /\ \E token \in issued : now <= token.exp

\* A bearer header whose token is not of three dot-separated segments.
NotThreeSegments(header) ==
    header.kind = "bearer" /\ Segments(header.token) # 3

\* C11: createChirpHandler, updateUserHandler and deleteChirpFromID answer 401
\* to every request whose bearer token is not of three segments, and the
\* request changes neither the users nor the chirps table.
C11_NotThreeSegmentsUnauthorized ==
    [][/\ \A header \in AccessHeaders, parameters \in {BadJSON} \cup ChirpParams,
             dbErr \in BOOLEAN :
            (resp'.op = "createChirp" /\ NotThreeSegments(header)
                /\ createChirpHandler(header, parameters, dbErr))
            => resp'.code = 401 /\ users' = users /\ chirps' = chirps
       /\ \A header \in AccessHeaders, params \in {BadJSON} \cup Credentials,
             fault \in Faults :
            (resp'.op = "updateUser" /\ NotThreeSegments(header)
                /\ updateUserHandler(header, params, fault.hash, fault.db))
            => resp'.code = 401 /\ users' = users /\ chirps' = chirps
       /\ \A path \in ChirpPaths, header \in AccessHeaders, dbErr \in DbErrs :
            (resp'.op = "deleteChirp" /\ NotThreeSegments(header)
                /\ deleteChirpFromID(path, header, dbErr))
            => resp'.code = 401 /\ users' = users /\ chirps' = chirps]_vars

\* C12: validateChirp refuses a body, with an empty output, exactly when the
\* body is longer than 140 characters.
C12_LengthInCharacters ==
    moderated.called
    => /\ moderated.ok <=> Len(text) <= MaxChirpLen
       /\ ~moderated.ok => moderated.body = <<>>

\* The whitespace-separated tokens of s, in order: the maximal runs of
\* characters that are not whitespace.
TokenStarts(s) ==
    {i \in 1..Len(s) : ~IsSpace(s[i]) /\ (i = 1 \/ IsSpace(s[i - 1]))}

TokenEnd(s, i) ==
    CHOOSE j \in i..Len(s) :
        /\ \A k \in i..j : ~IsSpace(s[k])
        /\ j = Len(s) \/ IsSpace(s[j + 1])

Tokens(s) ==
    [k \in 1..Cardinality(TokenStarts(s)) |->
        LET i == CHOOSE x \in TokenStarts(s) :
                    Cardinality({y \in TokenStarts(s) : y <= x}) = k
        IN  SubSeq(s, i, TokenEnd(s, i))]

\* A token whose lower-cased form is exactly a banned word.
IsBanned(token) ==
    \E b \in bannedWords :
        Len(b) = Len(token) /\ \A i \in 1..Len(b) : ToLowerChar(token[i]) = b[i]

\* Words joined by single spaces, nothing before the first or after the last.
SingleSpaced(s) ==
    /\ s # <<>> => ~IsSpace(s[1]) /\ ~IsSpace(s[Len(s)])
    /\ \A i \in 1..Len(s) :
          IsSpace(s[i]) => s[i] = " " /\ ~IsSpace(s[i + 1])

\* C13: for an accepted body validateChirp returns the tokens of the body in
\* their order, joined by single spaces with nothing around them, each token
\* unchanged unless its lower-cased form is a banned word, and then "****".
C13_CensorTokens ==
    (moderated.called /\ moderated.ok)
    => /\ SingleSpaced(moderated.body)
       /\ Tokens(moderated.body)
            = [k \in 1..Len(Tokens(text)) |->
                 IF IsBanned(Tokens(text)[k]) THEN Mask ELSE Tokens(text)[k]]

\* A body has been moderated in which a banned word in mixed case was
\* replaced and a banned word with punctuation attached was kept.
C13_Witness ==
    /\ moderated.called
    /\ moderated.ok
    /\ \E k \in 1..Len(Tokens(text)) :
          /\ IsBanned(Tokens(text)[k])
          /\ Tokens(text)[k] \notin bannedWords
          /\ Tokens(moderated.body)[k] = Mask
    /\ \E k \in 1..Len(Tokens(text)) :
          /\ Tokens(text)[k] = <<"k", "e", "r", "f", "u", "f", "f", "l", "e", "!">>
          /\ Tokens(moderated.body)[k] = Tokens(text)[k]

\* C14: every chirp body createChirpHandler stores is what validateChirp
\* returned for the body of the request, is no longer than that body and no
\* longer than 140 characters, and has no token whose lower-cased form is a
\* banned word.
C14_StoredBodyModerated ==
    /\ [](\A c \in DOMAIN chirps :
            /\ Len(chirps[c].body) <= MaxChirpLen
            /\ \A k \in 1..Len(Tokens(chirps[c].body)) :
                  ~IsBanned(Tokens(chirps[c].body)[k]))
    /\ [][(resp'.op = "createChirp" /\ chirps' # chirps)
            => \A header \in AccessHeaders, parameters \in PostParams,
                  dbErr \in BOOLEAN :
                  createChirpHandler(header, parameters, dbErr)
                  => /\ chirps'[resp'.obj].body = validateChirp(parameters.Body).body
                     /\ Len(chirps'[resp'.obj].body) <= Len(parameters.Body)
                     /\ \A c \in DOMAIN chirps : chirps'[c] = chirps[c]]_vars

\* A chirp has just been stored with a banned word of its body replaced.
C14_Witness ==
    /\ resp.op = "createChirp"
    /\ resp.code = 201
    /\ resp.obj \in DOMAIN chirps
    /\ \E k \in 1..Len(Tokens(chirps[resp.obj].body)) :
          Tokens(chirps[resp.obj].body)[k] = Mask

\* C15: refreshHandler answers a bearer value that matches no stored
\* refresh-token record with 404, the database answering, and hands out no
\* access token.
C15_UnknownTokenNotFound ==
    [][resp'.op = "refresh"
       => \A header \in RefreshHeaders :
             (/\ header.kind = "bearer"
              /\ TokenOf(header) \notin DOMAIN refreshTokens
              /\ refreshHandler(header, FALSE))
             => /\ resp'.code = 404
                /\ resp'.sub = NilUUID
                /\ issued' = issued]_vars

\* C16: when hashing the password fails createUserHandler writes exactly one
\* response, an error, and stores no user.
C16_HashFailureStopsRequest ==
    [][resp'.op = "createUser"
       => \A body \in Credentials, dbErr \in BOOLEAN :
             createUserHandler(body, TRUE, dbErr)
             => /\ resp'.writes = 1
                /\ resp'.code = 500
                /\ users' = users]_vars

\* C17: an updateUserHandler request that changes the users table passed the
\* access-token check and wrote only the row of the user the token names: no
\* other user's email or password changes and no row appears or goes.
C17_UpdateOnlySelf ==
    [][(resp'.op = "updateUser" /\ users' # users)
       => \A header \in AccessHeaders, params \in {BadJSON} \cup AccountParams,
             fault \in Faults :
             updateUserHandler(header, params, fault.hash, fault.db)
             => /\ AuthOK(header)
                /\ DOMAIN users' = DOMAIN users
                /\ \A u \in DOMAIN users :
                      u # SubjectOf(header) => users'[u] = users[u]]_vars

\* A user has just changed email and password to values of their own while
\* another user stays stored, with the email the update carried or not.
C17_Witness ==
    /\ resp.op = "updateUser"
    /\ resp.code = 200
    /\ resp.sub \in DOMAIN users
    /\ users[resp.sub].email = NewEmail
    /\ users[resp.sub].hashed_password = <<"bcrypt", WrongPassword>>
    /\ \E u \in DOMAIN users : u # resp.sub

\* C18: a user row goes only by resetHandler on the platform "dev"; on any
\* other platform resetHandler answers 403 and leaves the hit counter and the
\* users table as they were; on "dev" with a failing bulk delete it answers
\* with an error and leaves the hit counter as it was.
C18_ResetOnlyOnDev ==
    [][/\ (\E u \in DOMAIN users : u \notin DOMAIN users')
          => resp'.op = "reset" /\ platform = "dev"
       /\ resp'.op = "reset"
          => \A dbErr \in BOOLEAN :
                resetHandler(dbErr)
                => /\ platform # "dev"
                      => /\ resp'.code = 403
                         /\ fileserverHits' = fileserverHits
                         /\ users' = users
                   /\ (platform = "dev" /\ dbErr)
                      => /\ resp'.code = 500
                         /\ fileserverHits' = fileserverHits]_vars

\* C19: with file-server requests and resets interleaved statement by
\* statement, the hit counter is the number of Add(1) calls made since the
\* last Store(0), and it goes down by the Store(0) of a reset only.
C19_NoLostHits ==
    /\ [](fileserverHits = hitsAdded)
    /\ [][fileserverHits' >= fileserverHits
          \/ (\E w \in Workers : resetStore(w))]_vars

\* Two file-server requests were inside the middleware at once, and both are
\* counted.
C19_Witness ==
    /\ fileserverHits = 2
    /\ \A w \in Workers : workers[w] = "serve"

====
